---- MODULE Spec2Model ----
(***************************************************************************)
(* Model of User_awareness/telegram_bot.py: the alert poll thread          *)
(* (poll_alerts), the cooldown bookkeeping (should_alert / track_alert),   *)
(* the registry fetch (_get) and the inbound message handler (handle),     *)
(* which runs on its own thread and inserts into KNOWN_CHATS.              *)
(*                                                                         *)
(* JSON values are tagged records: ty is the JSON/Python type of the       *)
(* value ("absent" = key missing from the enclosing dict), so that every   *)
(* .get, iteration and comparison of the code can raise where Python       *)
(* raises.                                                                 *)
(***************************************************************************)
EXTENDS Integers, Sequences, FiniteSets, TLC

\* ---------------------------------------------------------------- bounds
MaxTime == 6          \* the clock (seconds since the epoch) stops here
MaxStart == 1         \* the process starts at a clock value in 0..MaxStart
MaxCooldown == 3      \* ALERT_COOLDOWN_SEC is configured in 2..MaxCooldown
MaxPoll == 1          \* ALERT_POLL_SEC is configured in 1..MaxPoll
NumChats == 2         \* chat identifiers are 1..NumChats

Chats == 1..NumChats
Kinds == <<"t_high", "t_low", "h_high", "h_low">>

\* ------------------------------------------------------------ JSON values
Absent == [ty |-> "absent", v |-> 0]
Null == [ty |-> "null", v |-> 0]
Num(n) == [ty |-> "num", v |-> n]
\* a JSON string; v is its rank in the lexicographic order of the strings used
Str(r) == [ty |-> "str", v |-> r]

Thr(th, tl, hh, hl) == [ty |-> "obj", t_high |-> th, t_low |-> tl, h_high |-> hh, h_low |-> hl]
ThrOf(ty) == [ty |-> ty, t_high |-> Absent, t_low |-> Absent, h_high |-> Absent, h_low |-> Absent]

Rd(t, h) == [ty |-> "obj", t |-> t, h |-> h]
RdOf(ty) == [ty |-> ty, t |-> Absent, h |-> Absent]

Sensor(sid, rd) == [ty |-> "obj", sensor_id |-> sid, reading |-> rd]
SensorOf(ty) == [ty |-> ty, sensor_id |-> "", reading |-> RdOf("absent")]

List(items) == [ty |-> "list", items |-> items]
ListOf(ty) == [ty |-> ty, items |-> <<>>]

Lab(id, thr, sensors) == [ty |-> "obj", lab_id |-> id, thresholds |-> thr, sensors |-> sensors]
LabOf(ty) == [ty |-> ty, lab_id |-> "", thresholds |-> ThrOf("absent"), sensors |-> ListOf("absent")]

Doc(labs) == [ty |-> "obj", labs |-> labs, error |-> FALSE]
DocOf(ty) == [ty |-> ty, labs |-> ListOf("absent"), error |-> FALSE]
\* {"error": "registry unreachable"}
ErrorDict == [ty |-> "obj", labs |-> ListOf("absent"), error |-> TRUE]
NoData == DocOf("unbound")

\* ------------------------------------------------------- Python semantics
\* x.get(...) exists only on dicts; a missing key's enclosing dict is {}
HasGet(x) == x.ty \in {"obj", "absent"}
\* for ... in x: None and numbers are not iterable; a missing key gives []
Iterable(x) == x.ty \in {"list", "absent", "obj", "str"}
\* `x or {}`
Falsy(x) == x.ty \in {"absent", "null"}
\* rd.get("t"): None when the key is missing or null
IsNone(x) == x.ty \in {"absent", "null"}
\* a > b and a < b raise TypeError unless both are numbers or both strings
Comparable(a, b) == a.ty = b.ty /\ a.ty \in {"num", "str"}

\* thr.get(kind, default)
Bound(thr, kind) ==
    IF thr[kind].ty = "absent"
    THEN Num(IF kind \in {"t_high", "h_high"} THEN 999 ELSE -999)
    ELSE thr[kind]

\* the comparison of line 95 / 100 / 106 / 111
Violates(x, b, kind) ==
    IF kind \in {"t_high", "h_high"} THEN x.v > b.v ELSE x.v < b.v

\* rd.get("t") for the temperature kinds, rd.get("h") for the humidity kinds
Field(rd, kind) == IF kind \in {"t_high", "t_low"} THEN rd.t ELSE rd.h

\* ------------------------------------------------- registry status replies
FullThr == Thr(Num(30), Num(10), Num(60), Num(20))
OneLab(id, thr, readings) ==
    Doc(List(<<Lab(id, thr, List([i \in 1..Len(readings) |-> Sensor("s", readings[i])]))>>))

\* bodies the status endpoint can answer with: readings against configured
\* thresholds first, then labs with missing thresholds, then replies of
\* another shape than the registry documents
Snapshots == <<
    OneLab("L1", Thr(Num(30), Absent, Absent, Absent), <<Rd(Num(35), Absent)>>),
    OneLab("L1", Thr(Num(30), Absent, Absent, Absent), <<Rd(Num(35), Absent), Rd(Num(36), Null)>>),
    OneLab("L1", FullThr, <<Rd(Num(30), Num(10))>>),
    OneLab("L1", FullThr, <<Rd(Num(30), Num(20)), RdOf("null"), RdOf("absent")>>),
    Doc(List(<<>>)),
    OneLab("L2", ThrOf("absent"), <<Rd(Num(1000), Num(1000))>>),
    OneLab("L2", ThrOf("absent"), <<Rd(Num(-1000), Null)>>),
    OneLab("L2", ThrOf("absent"), <<Rd(Num(999), Num(-999))>>),
    OneLab("L2", Thr(Absent, Num(10), Absent, Num(20)), <<Rd(Num(1000), Num(1000))>>),
    Doc(List(<<Lab("L1", FullThr, List(<<Sensor("s", Rd(Num(15), Num(50)))>>)),
               Lab("L2", ThrOf("absent"), List(<<Sensor("s", Rd(Null, Num(70)))>>))>>)),
    Doc(ListOf("absent")),
    DocOf("list"),
    DocOf("null"),
    Doc(ListOf("null")),
    Doc([ty |-> "obj", items |-> <<LabOf("str")>>]),
    Doc(List(<<LabOf("null")>>)),
    Doc(List(<<Lab("L1", FullThr, ListOf("null"))>>)),
    Doc(List(<<Lab("L1", FullThr, List(<<SensorOf("str")>>))>>)),
    OneLab("L1", FullThr, <<RdOf("str")>>),
    OneLab("L1", ThrOf("null"), <<Rd(Num(35), Absent)>>),
    OneLab("L1", ThrOf("null"), <<RdOf("null")>>),
    OneLab("L1", ThrOf("list"), <<Rd(Absent, Num(35))>>),
    OneLab("L1", Thr(Null, Absent, Absent, Absent), <<Rd(Num(35), Absent)>>),
    OneLab("L1", Thr(Str(1), Absent, Absent, Absent), <<Rd(Num(35), Absent)>>),
    OneLab("L1", Thr(Num(30), Absent, Absent, Absent), <<Rd(Str(2), Absent)>>),
    OneLab("L1", Thr(Str(2), Absent, Absent, Absent), <<Rd(Str(1), Absent)>>)
>>
\* the replies of the documented shape with every threshold they test configured
Configured == 1..5
\* the replies with a missing threshold or of another shape
Irregular == 6..Len(Snapshots)

\* how a GET of the status endpoint can end
FetchStatus == {"ok", "connection_error", "timeout", "http_error", "bad_json"}
Replies(bodies) == [status : FetchStatus, body : bodies]

\* ------------------------------------------------------- inbound messages
\* a message text is a sequence of lexemes: a word, "SP" (white space) or
\* "QUOTE" (a quotation mark that is never closed)
Texts == <<
    <<"/start">>,
    <<"SP", "/Help", "SP">>,
    <<"/START", "SP", "now">>,
    <<"/status">>,
    <<"hello">>,
    <<>>,
    <<"SP">>,
    <<"/start", "SP", "QUOTE">>
>>
ContentTypes == {"text", "photo"}
Messages(types, texts) == [chat_id : Chats, content_type : types, text : texts]
\* the texts that subscribe a chat, and all of them
Subscribing == 1..2
AnyText == 1..Len(Texts)

RECURSIVE lstrip(_)
lstrip(s) == IF s # <<>> /\ Head(s) = "SP" THEN lstrip(Tail(s)) ELSE s
RECURSIVE rstrip(_)
rstrip(s) == IF s # <<>> /\ s[Len(s)] = "SP" THEN rstrip(SubSeq(s, 1, Len(s) - 1)) ELSE s
strip(s) == rstrip(lstrip(s))

\* shlex.split: ValueError("No closing quotation") on an open quote,
\* otherwise the words between white space
shlex_split(s) ==
    IF \E i \in 1..Len(s) : s[i] = "QUOTE"
    THEN [raised |-> TRUE, parts |-> <<>>]
    ELSE [raised |-> FALSE, parts |-> SelectSeq(s, LAMBDA w : w # "SP")]

lower(w) ==
    CASE w = "/START" -> "/start"
      [] w = "/Help" -> "/help"
      [] OTHER -> w

\* the test with "/help" forgotten
IsRegisterCmd_start(cmd) == cmd = "/start"

\* cmd in ("/start", "/help")
IsRegisterCmd(cmd) == cmd \in {"/start", "/help"}

\* whether handle(msg) reaches KNOWN_CHATS.add(chat_id)
Registers(msg) ==
    /\ msg.content_type = "text"
    /\ LET sp == shlex_split(strip(Texts[msg.text]))
       IN  /\ ~sp.raised
           /\ sp.parts # <<>>
           /\ IsRegisterCmd(lower(sp.parts[1]))

\* ------------------------------------------------------------------ state
VARIABLES
    ALERT_POLL_SEC,      \* module global, read from the environment at import
    ALERT_COOLDOWN_SEC,  \* module global, read from the environment at import
    KNOWN_CHATS,         \* module global: set of chat ids
    _last_alert,         \* module global: dict (lab_id, kind) -> int(time.time())
    now,                 \* int(time.time())
    pc,                  \* where the poll thread is in poll_alerts
    data,                \* poll_alerts local: the reply bound in this cycle
    li, si, k,           \* loop positions: lab, sensor, check (index into Kinds)
    it_used, it_todo,    \* the set iterator of `for chat in KNOWN_CHATS`
    wake,                \* the clock value at which the running time.sleep returns
    exc,                 \* the exception that ended the poll thread, if any
    op,                  \* history: the step the poll thread took last
    fetched,             \* history: how this cycle's GET ended
    started,             \* history: the clock at process start
    interacted,          \* history: chats that ever sent a message
    registered,          \* history: chats that ever sent /start or /help
    last_sent,           \* history: (lab_id, kind) -> time of its last delivery
    cycle_fired,         \* history: pairs that fired in this cycle
    cycle_ready          \* history: pairs out of cooldown when this cycle fetched

vars == <<ALERT_POLL_SEC, ALERT_COOLDOWN_SEC, KNOWN_CHATS, _last_alert, now, pc,
          data, li, si, k, it_used, it_todo, wake, exc, op, fetched, started,
          interacted, registered, last_sent, cycle_fired, cycle_ready>>

config == <<ALERT_POLL_SEC, ALERT_COOLDOWN_SEC, started>>
poller == <<pc, data, li, si, k, it_used, it_todo, wake, exc, op, fetched, cycle_fired, cycle_ready>>
alerts == <<_last_alert, last_sent>>
inbound == <<KNOWN_CHATS, interacted, registered>>

Range(f) == {f[x] : x \in DOMAIN f}
LabIds == {"L1", "L2"}
Get(f, key, default) == IF key \in DOMAIN f THEN f[key] ELSE default
Put(f, key, val) == [x \in DOMAIN f \cup {key} |-> IF x = key THEN val ELSE f[x]]

\* ----------------------------------------------------- poll_alerts locals
labs == data.labs.items
lab == labs[li]
lab_id == lab.lab_id
thr == lab.thresholds
sensor == lab.sensors.items[si]
\* rd = sensor.get("reading") or {}
rd == IF Falsy(sensor.reading) THEN RdOf("absent") ELSE sensor.reading
kind == Kinds[k]

\* --------------------------------------------------------------- cooldown
\* the elapsed time compared with the poll interval
should_alert_poll(lab_id_, kind_) ==
    (now - Get(_last_alert, <<lab_id_, kind_>>, 0)) >= ALERT_POLL_SEC

\* the comparison made strict
should_alert_strict(lab_id_, kind_) ==
    (now - Get(_last_alert, <<lab_id_, kind_>>, 0)) > ALERT_COOLDOWN_SEC

\* the cooldown test dropped
should_alert_nocool(lab_id_, kind_) == TRUE

\* lines 74-76
should_alert(lab_id_, kind_) ==
    (now - Get(_last_alert, <<lab_id_, kind_>>, 0)) >= ALERT_COOLDOWN_SEC

\* lines 70-71: the value of _last_alert after track_alert(lab_id, kind)
track_alert(lab_id_, kind_) == Put(_last_alert, <<lab_id_, kind_>>, now)

\* ------------------------------------------------------------------- _get
\* r.raise_for_status() left out: the body of an error response is returned
_get_no_raise(reply) ==
    IF reply.status \in {"ok", "http_error"} THEN Snapshots[reply.body] ELSE ErrorDict

\* lines 26-33
_get(reply) ==
    IF reply.status = "ok" THEN Snapshots[reply.body] ELSE ErrorDict

\* the test of line 81 never true
NoRecipients_never(chats) == FALSE

\* `not KNOWN_CHATS`
NoRecipients(chats) == chats = {}

Init ==
    /\ ALERT_POLL_SEC \in 1..MaxPoll
    /\ ALERT_COOLDOWN_SEC \in 2..MaxCooldown
    /\ KNOWN_CHATS = {}
    /\ _last_alert = <<>>
    /\ now \in 0..MaxStart
    /\ started = now
    /\ pc = "top"
    /\ data = NoData
    /\ li = 0 /\ si = 0 /\ k = 0
    /\ it_used = 0 /\ it_todo = {}
    /\ wake = 0
    /\ exc = "none"
    /\ op = "init"
    /\ fetched = "none"
    /\ interacted = {} /\ registered = {}
    /\ last_sent = <<>>
    /\ cycle_fired = {}
    /\ cycle_ready = {}

\* ------------------------------------------------------------ environment
\* a second passes on the clock
Tick ==
    /\ now < MaxTime
    /\ now' = now + 1
    /\ UNCHANGED <<config, poller, alerts, inbound>>

\* handle(msg), on the message-loop thread.  Every branch after the
\* /start-/help one only calls the registry and replies to chat_id.
handle(msg) ==
    /\ KNOWN_CHATS' = IF Registers(msg) THEN KNOWN_CHATS \cup {msg.chat_id} ELSE KNOWN_CHATS
    /\ interacted' = interacted \cup {msg.chat_id}
    /\ registered' =
         IF /\ msg.content_type = "text"
            /\ \A i \in 1..Len(Texts[msg.text]) : Texts[msg.text][i] # "QUOTE"
            /\ \E i \in 1..Len(Texts[msg.text]) :
                 /\ Texts[msg.text][i] \in {"/start", "/START", "/help", "/Help"}
                 /\ \A j \in 1..(i - 1) : Texts[msg.text][j] = "SP"
         THEN registered \cup {msg.chat_id}
         ELSE registered
    /\ UNCHANGED <<config, poller, alerts, now>>

\* ------------------------------------------------------------ poll thread
\* Lines 86-115 from position (l, s, c) on, up to the first thing another
\* thread or the clock can bear on: a comparison that is true (should_alert
\* is asked next), an exception, or the end of the labs.  s = 0 enters lab
\* l, c = 0 enters sensor s, c in 1..4 is the check of Kinds[c].  Everything
\* passed over reads the local `data` only.
Stop(at, l, s, c, e) == [at |-> at, li |-> l, si |-> s, k |-> c, exc |-> e]

RECURSIVE Scan(_, _, _, _)
Scan(d, l, s, c) ==
    IF l > Len(d.labs.items)
    THEN Stop("done", 0, 0, 0, "none")
    ELSE LET lab_ == d.labs.items[l]
             sensor_ == lab_.sensors.items[s]
             rd_ == IF Falsy(sensor_.reading) THEN RdOf("absent") ELSE sensor_.reading
             thr_ == lab_.thresholds
             x == Field(rd_, Kinds[c])
         IN
         IF s = 0
         THEN \* lab.get("lab_id"), lab.get("thresholds", {}), for sensor in lab.get("sensors", [])
              IF lab_.ty # "obj" THEN Stop("raise", l, s, c, "AttributeError")
              ELSE IF ~Iterable(lab_.sensors) THEN Stop("raise", l, s, c, "TypeError")
              ELSE Scan(d, l, 1, 0)
         ELSE IF s > Len(lab_.sensors.items)
         THEN Scan(d, l + 1, 0, 0)
         ELSE IF c = 0
         THEN \* sensor.get("reading") or {}, sensor.get("sensor_id"), rd.get("t"), rd.get("h")
              IF sensor_.ty # "obj" THEN Stop("raise", l, s, c, "AttributeError")
              ELSE IF rd_.ty \notin {"obj", "absent"} THEN Stop("raise", l, s, c, "AttributeError")
              ELSE Scan(d, l, s, 1)
         ELSE IF IsNone(x)
         THEN \* `if t is not None` / `if h is not None` skips both checks of the field
              IF c < 3 THEN Scan(d, l, s, 3) ELSE Scan(d, l, s + 1, 0)
         ELSE IF ~HasGet(thr_) THEN Stop("raise", l, s, c, "AttributeError")
         ELSE IF ~Comparable(x, Bound(thr_, Kinds[c])) THEN Stop("raise", l, s, c, "TypeError")
         ELSE IF Violates(x, Bound(thr_, Kinds[c]), Kinds[c]) THEN Stop("check", l, s, c, "none")
         ELSE IF c < Len(Kinds) THEN Scan(d, l, s, c + 1)
         ELSE Scan(d, l, s + 1, 0)

\* the poll thread moves to where Scan stopped: at a true comparison, out of
\* poll_alerts on an exception nobody catches (its thread ends), or into
\* the time.sleep(ALERT_POLL_SEC) of line 116
Goto(r) ==
    /\ li' = r.li /\ si' = r.si /\ k' = r.k
    /\ pc' = CASE r.at = "check" -> "check"
               [] r.at = "raise" -> "dead"
               [] r.at = "done" -> "sleep"
    /\ exc' = IF r.at = "raise" THEN r.exc ELSE exc
    /\ wake' = IF r.at = "done" THEN now + ALERT_POLL_SEC ELSE wake

\* on from the statement after the check at (li, si, k)
Resume ==
    Goto(IF k < Len(Kinds) THEN Scan(data, li, si, k + 1) ELSE Scan(data, li, si + 1, 0))

\* an exception of the delivery pass leaves poll_alerts and ends its thread
Raise(e) ==
    /\ pc' = "dead"
    /\ exc' = e
    /\ op' = "raise"
    /\ UNCHANGED <<data, li, si, k, it_used, it_todo, wake, fetched, cycle_fired, cycle_ready>>

\* lines 81-82: nobody to notify; time.sleep(ALERT_POLL_SEC) starts
PollIdle ==
    /\ pc = "top"
    /\ NoRecipients(KNOWN_CHATS)
    /\ pc' = "sleep"
    /\ wake' = now + ALERT_POLL_SEC
    /\ op' = "idle"
    /\ UNCHANGED <<config, alerts, inbound, now, data, li, si, k, it_used, it_todo,
                   exc, fetched, cycle_fired, cycle_ready>>

\* lines 84-86: data = _get("status"); labs = data.get("labs", []);
\* for lab in labs: ... up to the first true comparison
PollFetch(reply) ==
    /\ pc = "top"
    /\ ~NoRecipients(KNOWN_CHATS)
    /\ LET d == _get(reply) IN
       /\ data' = d
       /\ fetched' = reply.status
       /\ IF d.ty # "obj"
          THEN Goto(Stop("raise", 0, 0, 0, "AttributeError"))
          ELSE IF ~Iterable(d.labs)
          THEN Goto(Stop("raise", 0, 0, 0, "TypeError"))
          ELSE Goto(Scan(d, 1, 0, 0))
    /\ op' = "fetch"
    /\ cycle_ready' = {p \in LabIds \X Range(Kinds) :
                          now - Get(_last_alert, p, 0) >= ALERT_COOLDOWN_SEC}
    /\ UNCHANGED <<config, alerts, inbound, now, it_used, it_todo, cycle_fired>>

\* lines 95-97, 100-102, 106-108, 111-113: the comparison is true;
\* should_alert decides
Check ==
    /\ pc = "check"
    /\ IF should_alert(lab_id, kind)
       THEN \* the message is formatted and iter(KNOWN_CHATS) is taken
            /\ pc' = "send"
            /\ it_used' = Cardinality(KNOWN_CHATS)
            /\ it_todo' = KNOWN_CHATS
            /\ cycle_fired' = cycle_fired \cup {<<lab_id, kind>>}
            /\ op' = "fire"
            /\ UNCHANGED <<li, si, k, wake, exc>>
       ELSE /\ Resume
            /\ op' = "suppressed"
            /\ UNCHANGED <<it_used, it_todo, cycle_fired>>
    /\ UNCHANGED <<config, alerts, inbound, now, data, fetched, cycle_ready>>

\* next(iterator) of a set whose size changed since iter() was taken
IterChanged ==
    /\ pc = "send"
    /\ Cardinality(KNOWN_CHATS) # it_used
    /\ Raise("RuntimeError")
    /\ UNCHANGED <<config, alerts, inbound, now>>

\* lines 98, 103, 109, 114: bot.sendMessage(chat, msg) returns
Deliver(chat) ==
    /\ pc = "send"
    /\ Cardinality(KNOWN_CHATS) = it_used
    /\ chat \in it_todo
    /\ it_todo' = it_todo \ {chat}
    /\ last_sent' = Put(last_sent, <<lab_id, kind>>, now)
    /\ op' = "deliver"
    /\ UNCHANGED <<config, inbound, now, _last_alert,
                   pc, data, li, si, k, it_used, wake, exc, fetched, cycle_fired, cycle_ready>>

\* lines 98, 103, 109, 114: bot.sendMessage(chat, msg) raises
DeliverFail(chat) ==
    /\ pc = "send"
    /\ Cardinality(KNOWN_CHATS) = it_used
    /\ chat \in it_todo
    /\ Raise("TelegramError")
    /\ UNCHANGED <<config, alerts, inbound, now>>

\* lines 99, 104, 110, 115: the for loop is exhausted; track_alert(lab_id, kind)
Track ==
    /\ pc = "send"
    /\ Cardinality(KNOWN_CHATS) = it_used
    /\ it_todo = {}
    /\ _last_alert' = track_alert(lab_id, kind)
    /\ Resume
    /\ op' = "track"
    /\ UNCHANGED <<config, inbound, now, last_sent,
                   data, it_used, it_todo, fetched, cycle_fired, cycle_ready>>

\* lines 82-83, 116: time.sleep returns once the interval has passed; the
\* next cycle rebinds the locals before it reads them
Sleep ==
    /\ pc = "sleep"
    /\ now >= wake
    /\ pc' = "top"
    /\ wake' = 0
    /\ data' = NoData
    /\ li' = 0 /\ si' = 0 /\ k' = 0
    /\ fetched' = "none"
    /\ cycle_fired' = {}
    /\ cycle_ready' = {}
    /\ op' = "wake"
    /\ UNCHANGED <<config, alerts, inbound, now, it_used, it_todo, exc>>

\* the poll thread runs against the registry's documented replies while
\* chats subscribe
Next ==
    \/ Tick
    \/ \E msg \in Messages({"text"}, Subscribing) : handle(msg)
    \/ PollIdle
    \/ \E reply \in Replies(Configured) : PollFetch(reply)
    \/ Check
    \/ IterChanged
    \/ \E chat \in Chats : Deliver(chat)
    \/ \E chat \in Chats : DeliverFail(chat)
    \/ Track
    \/ Sleep

Spec == Init /\ [][Next]_vars

\* the same threads against replies with missing thresholds or another
\* shape
NextShapes ==
    \/ Tick
    \/ \E msg \in Messages({"text"}, Subscribing) : handle(msg)
    \/ PollIdle
    \/ \E reply \in Replies(Irregular) : PollFetch(reply)
    \/ Check
    \/ IterChanged
    \/ \E chat \in Chats : Deliver(chat)
    \/ \E chat \in Chats : DeliverFail(chat)
    \/ Track
    \/ Sleep

SpecShapes == Init /\ [][NextShapes]_vars

\* the same threads with every kind of inbound message
NextInbound ==
    \/ Tick
    \/ \E msg \in Messages(ContentTypes, AnyText) : handle(msg)
    \/ PollIdle
    \/ \E reply \in Replies({1}) : PollFetch(reply)
    \/ Check
    \/ IterChanged
    \/ \E chat \in Chats : Deliver(chat)
    \/ \E chat \in Chats : DeliverFail(chat)
    \/ Track
    \/ Sleep

SpecInbound == Init /\ [][NextInbound]_vars

TypeOK ==
    /\ pc \in {"top", "check", "send", "sleep", "dead"}
    /\ KNOWN_CHATS \subseteq Chats
    /\ now \in 0..MaxTime

\* ----------------------------------------------------------------- claims
\* the pair a check or a delivery pass is about
cur == <<lab_id, kind>>
\* the comparison of the check the poll thread is at is evaluated and true
ViolationAt ==
    /\ pc = "check"
    /\ ~IsNone(Field(rd, kind))
    /\ HasGet(thr)
    /\ Comparable(Field(rd, kind), Bound(thr, kind))
    /\ Violates(Field(rd, kind), Bound(thr, kind), kind)
\* the poll thread takes the check it is at
CheckStep == pc = "check" /\ <<pc, li, si, k>>' # <<pc, li, si, k>>
\* the poll thread leaves a delivery pass through track_alert
TrackStep == pc = "send" /\ op' = "track"
\* bot.sendMessage returns
DeliverStep == pc = "send" /\ it_todo' # it_todo
\* this cycle's GET failed
FailedCycle == fetched \notin {"none", "ok"}

\* C1: for every (lab, kind), a firing is recorded at least ALERT_COOLDOWN_SEC
\* after the firing recorded before it, and the first notification of a firing
\* is delivered at least ALERT_COOLDOWN_SEC after the last notification of the
\* firing before it.
C1_CooldownSpacing ==
    [][ /\ (TrackStep /\ cur \in DOMAIN _last_alert)
            => _last_alert'[cur] - _last_alert[cur] >= ALERT_COOLDOWN_SEC
        /\ (DeliverStep /\ Cardinality(it_todo) = it_used /\ cur \in DOMAIN last_sent)
            => now - last_sent[cur] >= ALERT_COOLDOWN_SEC ]_vars

\* a second firing of a pair has been delivered to every recipient
C1_Witness ==
    /\ pc = "send" /\ op = "deliver" /\ it_todo = {}
    /\ cur \in DOMAIN _last_alert
    /\ last_sent[cur] - _last_alert[cur] >= ALERT_COOLDOWN_SEC

\* C2: the check against a missing bound is false, whatever the reading, and
\* no delivery pass is for a kind whose bound is missing.
C2_AbsentBoundNeverTriggers ==
    /\ (pc = "check" /\ ~IsNone(Field(rd, kind)) /\ HasGet(thr) /\ thr[kind].ty = "absent")
          => ~Violates(Field(rd, kind), Bound(thr, kind), kind)
    /\ pc = "send" => thr[kind].ty # "absent"

\* C3: a delivery that raises does not end the delivery pass or the poll
\* thread.
C3_FailedDeliveryTolerated == ~(pc = "dead" /\ exc = "TelegramError")

\* C4: a cycle whose GET failed iterates no lab, sends nothing, leaves the
\* cooldown mapping alone, and goes to the sleep of line 116 and from there,
\* one poll interval later, to the next cycle.
C4_FailedFetchIsNoOp ==
    [][ /\ FailedCycle' =>
            /\ pc' = "sleep"
            /\ labs' = <<>>
            /\ _last_alert' = _last_alert
            /\ last_sent' = last_sent
        /\ (~FailedCycle /\ FailedCycle') => wake' = now + ALERT_POLL_SEC
        /\ FailedCycle =>
            /\ _last_alert' = _last_alert
            /\ last_sent' = last_sent
            /\ \/ pc' = "sleep" /\ wake' = wake
               \/ pc' = "top" /\ now >= wake ]_vars

\* a failed cycle has slept its interval
C4_Witness == FailedCycle /\ pc = "sleep" /\ KNOWN_CHATS # {} /\ now = wake

\* C5: no reply of an unexpected shape ends the poll thread.
C5_MalformedReplyTolerated == ~(pc = "dead" /\ exc \in {"AttributeError", "TypeError"})

C7_IdleCycle ==
    [][ /\ (pc = "top" /\ KNOWN_CHATS = {}) =>
            /\ fetched' = "none" /\ data' = data
            /\ _last_alert' = _last_alert /\ last_sent' = last_sent
            /\ exc' = "none"
            /\ \/ pc' = "top"
               \/ pc' = "sleep" /\ wake' = now + ALERT_POLL_SEC
        /\ (pc = "sleep" /\ fetched = "none") =>
            /\ fetched' = "none" /\ data' = data
            /\ _last_alert' = _last_alert /\ last_sent' = last_sent
            /\ exc' = "none"
            /\ \/ pc' = "sleep" /\ wake' = wake
               \/ pc' = "top" /\ now >= wake ]_vars

\* an idle cycle has slept its interval and the next cycle starts
C7_Witness ==
    /\ pc = "top" /\ op = "wake" /\ fetched = "none" /\ data = NoData
    /\ KNOWN_CHATS = {} /\ now >= started + ALERT_POLL_SEC

\* C8 as stated: KNOWN_CHATS is the set of chats that ever sent a message.
C8_EveryChatThatInteracted == KNOWN_CHATS = interacted

\* C8: KNOWN_CHATS is the set of chats that sent a text message that
\* tokenizes and whose first token is /start or /help in any case, and no
\* step removes a member.
C8_SubscribedChats ==
    /\ [](KNOWN_CHATS = registered)
    /\ [][KNOWN_CHATS \subseteq KNOWN_CHATS']_vars

\* a chat that only sent other messages is not a recipient of a firing
C8_Witness ==
    /\ pc = "send" /\ op = "deliver"
    /\ KNOWN_CHATS # {} /\ interacted \ KNOWN_CHATS # {}

\* C9 as stated: after a sensor fired for a pair that was out of cooldown
\* when the cycle started, a later sensor of the lab violating the same
\* bound in the cycle fires too.
C9_SecondViolationFires ==
    [][ (ViolationAt /\ CheckStep /\ cur \in cycle_fired /\ cur \in cycle_ready)
        => pc' = "send" ]_vars

\* C9: after a sensor fired for a pair in a cycle, a later sensor of the lab
\* violating the same bound in the cycle is suppressed, unless the cooldown
\* has run out since the first firing was recorded.
C9_SecondViolationSuppressed ==
    [][ (ViolationAt /\ CheckStep /\ cur \in cycle_fired) =>
        /\ cur \in DOMAIN _last_alert
        /\ IF now - _last_alert[cur] < ALERT_COOLDOWN_SEC
           THEN pc' # "send" /\ op' = "suppressed" /\ last_sent' = last_sent
           ELSE pc' = "send" ]_vars

\* the second sensor's violation was suppressed in the cycle of the firing
C9_Witness ==
    /\ pc = "sleep" /\ op = "suppressed" /\ data = Snapshots[2]
    /\ cycle_fired = {<<"L1", "t_high">>} /\ cycle_fired \subseteq cycle_ready
    /\ now - _last_alert[<<"L1", "t_high">>] < ALERT_COOLDOWN_SEC

\* C10: once a delivery pass has delivered to a recipient, KNOWN_CHATS keeps
\* the size it had when the pass took its iterator, until the pass ends.
C10_RecipientSetGuarded ==
    (pc = "send" /\ Cardinality(it_todo) < it_used)
        => Cardinality(KNOWN_CHATS) = it_used
====
